---- MODULE Spec2Model ----
(***************************************************************************)
(* Model of src/src/main.py: the in-memory battle store (battles,          *)
(* current_battle_id), the ConnectionManager registry and its broadcast,   *)
(* the HTTP handlers start_battle / cast_vote / get_current_battle and the *)
(* websocket_endpoint handler with generate_ai_action.                     *)
(*                                                                         *)
(* Handlers are asyncio coroutines: they run without interruption between  *)
(* two suspension points.  The suspension points of the code are the       *)
(* awaits on network I/O: websocket.accept, websocket.receive_text and     *)
(* connection.send_text.  One action of the model is one such              *)
(* uninterrupted run.                                                      *)
(***************************************************************************)
EXTENDS Integers, Sequences, FiniteSets, TLC

(* ------------------------------ bounds -------------------------------- *)
NumWS == 2          \* websocket connections that may ever be opened
NumReq == 3         \* HTTP requests (start_battle, cast_vote) made in a run
MaxClock == 1       \* int(time.time()) ranges over 0..MaxClock
MaxCommits == 3     \* start_battle, cast_vote and battle_action commits in a run
MaxActions == 1     \* battle_action commits among them

WS == 1..NumWS
Reqs == 1..NumReq
None == "None"

(* inputs of the handlers, drawn from small sets *)
ScenarioInputs == {"hospital"}
AttackerInputs == {"apt_group", "no_such_persona"}
DefenderInputs == {"ai_defender"}
Options == {"attacker", "defender"}
InboundMessages ==
    {"battle_action", "other_type", "undecodable", "no_type",
     "transport_error", "disconnect"}

(* --------------------------- static tables ---------------------------- *)
ATTACKER_PERSONAS ==
    [t \in {"script_kiddie", "cybercriminal", "apt_group", "insider_threat",
            "nation_state"} |->
       CASE t = "script_kiddie" ->
              [name |-> "Script Kiddie", threat_level |-> 1,
               techniques |-> <<"Phishing", "Malware", "Social Engineering">>]
         [] t = "cybercriminal" ->
              [name |-> "Cybercriminal", threat_level |-> 3,
               techniques |-> <<"Ransomware", "Banking Trojans",
                                "Credential Theft">>]
         [] t = "apt_group" ->
              [name |-> "APT Group", threat_level |-> 7,
               techniques |-> <<"Zero-day Exploits", "Living off the Land",
                                "Supply Chain Attacks">>]
         [] t = "insider_threat" ->
              [name |-> "Insider Threat", threat_level |-> 5,
               techniques |-> <<"Data Exfiltration", "Privilege Escalation",
                                "Backdoor Installation">>]
         [] t = "nation_state" ->
              [name |-> "Nation-State Actor", threat_level |-> 10,
               techniques |-> <<"Infrastructure Attacks", "Espionage",
                                "Cyber Warfare">>]]

DEFENDER_PERSONAS ==
    [t \in {"security_analyst", "threat_hunter", "incident_responder",
            "security_architect", "ai_defender"} |->
       CASE t = "security_analyst" ->
              [name |-> "Security Analyst",
               strategy |-> "Reactive monitoring and incident response"]
         [] t = "threat_hunter" ->
              [name |-> "Threat Hunter",
               strategy |-> "Proactive hunting and threat intelligence"]
         [] t = "incident_responder" ->
              [name |-> "Incident Responder",
               strategy |-> "Rapid containment and forensic analysis"]
         [] t = "security_architect" ->
              [name |-> "Security Architect",
               strategy |-> "Defense-in-depth and architectural security"]
         [] t = "ai_defender" ->
              [name |-> "AI Defender",
               strategy |-> "Automated threat detection and response"]]

\* the keys of SCENARIOS
ScenarioTags == {"hospital", "banking", "telecom", "corporate", "government"}

(* ------------------------------- state -------------------------------- *)
VARIABLES
    clock,               \* int(time.time())
    heap,                \* the BattleState objects, in order of creation
    battles,             \* battles: battle_id -> BattleState object (index in heap)
    current_battle_id,   \* None or a battle_id
    active_connections,  \* manager.active_connections, a list of websockets
    ws,                  \* position of each websocket_endpoint coroutine
    req,                 \* position and locals of each HTTP handler
    bc,                  \* the broadcast each handler is suspended in
    inbox,               \* the last message the peer of each websocket received
    response,            \* the HTTP response the last step gave, if any
    finished,            \* the broadcast the last step ended, if any
    history,             \* the commits to the battle store, in order
    received             \* the session and message["type"] the last step tested, if any

vars == <<clock, heap, battles, current_battle_id, active_connections,
          ws, req, bc, inbox, response, finished, history, received>>

TaskW(w) == <<"ws", w>>
TaskR(r) == <<"req", r>>
Tasks == {TaskW(w) : w \in WS} \cup {TaskR(r) : r \in Reqs}

(* ------------------------- the battle store --------------------------- *)
BattleId(t) == <<"battle_", t>>

EmptyTally == [o \in {} |-> 0]

NewBattle(battle_id, scenario, attacker, defender) ==
    [battle_id |-> battle_id,
     scenario |-> scenario,
     attacker_persona |-> attacker,
     defender_persona |-> defender,
     current_phase |-> "reconnaissance",
     threat_level |-> 1,
     audience_votes |-> EmptyTally,
     battle_log |-> <<>>,
     is_active |-> TRUE]

\* a store that keeps the battle already saved under the identifier
StoreBattleKeep(m, battle_id, obj) ==
    [k \in DOMAIN m \cup {battle_id} |-> IF k \in DOMAIN m THEN m[k] ELSE obj]

\* a start_battle that sets the reference and does not store the battle
StoreBattleSkip(m, battle_id, obj) == m

\* battles[battle_id] = battle
StoreBattle(m, battle_id, obj) ==
    [k \in DOMAIN m \cup {battle_id} |-> IF k = battle_id THEN obj ELSE m[k]]

\* the test of get_current_battle, cast_vote and websocket_endpoint
HasCurrentBattle ==
    current_battle_id # None /\ current_battle_id \in DOMAIN battles

GetCurrentBattle ==
    IF HasCurrentBattle THEN heap[battles[current_battle_id]] ELSE None

\* an increment whose entry is set to zero on every vote
IncrementVoteReset(votes, option) ==
    [o \in DOMAIN votes \cup {option} |-> IF o = option THEN 1 ELSE votes[o]]

\* if option not in votes: votes[option] = 0; votes[option] += 1
IncrementVote(votes, option) ==
    LET created == IF option \in DOMAIN votes
                   THEN votes
                   ELSE [o \in DOMAIN votes \cup {option} |->
                           IF o = option THEN 0 ELSE votes[o]]
    IN  [created EXCEPT ![option] = @ + 1]

(* ----------------------------- envelopes ------------------------------ *)
BattleStartedEnvelope(battle) ==
    [type |-> "battle_started", battle |-> battle]

VoteUpdateEnvelope(votes) ==
    [type |-> "vote_update", votes |-> votes]

BattleActionEnvelope(action, battle) ==
    [type |-> "battle_action", action |-> action, battle_state |-> battle]

(* ----------------------------- broadcast ------------------------------ *)
NoFrame == [active |-> FALSE]
NoMessage == [seq |-> 0]
NoResponse == [kind |-> None]
NoType == <<0, None>>

\* A broadcast: message and idx are the argument and the list iterator of
\* `for connection in self.active_connections`, target the connection whose
\* send_text is awaited.  For the properties it also records: failed, the
\* connections whose send raised; pending, the connections registered since
\* the broadcast began that it has not tried yet; removed, whether a
\* connection left the list meanwhile.
BcNext(f, conns) ==
    IF f.idx < Len(conns)
    THEN [f EXCEPT !.idx = @ + 1,
                   !.target = conns[f.idx + 1],
                   !.pending = @ \ {conns[f.idx + 1]}]
    ELSE [f EXCEPT !.target = 0, !.done = TRUE]

\* manager.broadcast(message) up to its first suspension
BcStart(message, seq, conns) ==
    BcNext([active |-> TRUE, done |-> FALSE, raised |-> FALSE,
            message |-> message, seq |-> seq, idx |-> 0, target |-> 0,
            failed |-> {}, removed |-> FALSE,
            pending |-> {conns[i] : i \in 1..Len(conns)}],
           conns)

\* what is kept of a broadcast that has ended
Outcome(f) ==
    [active |-> TRUE, seq |-> f.seq, raised |-> f.raised, failed |-> f.failed,
     removed |-> f.removed, missed |-> f.pending]

Init ==
    /\ clock = 0
    /\ heap = <<>>
    /\ battles = [k \in {} |-> 0]
    /\ current_battle_id = None
    /\ active_connections = <<>>
    /\ ws = [w \in WS |-> "new"]
    /\ req = [r \in Reqs |-> [pc |-> "free"]]
    /\ bc = [t \in Tasks |-> NoFrame]
    /\ inbox = [w \in WS |-> NoMessage]
    /\ response = NoResponse
    /\ finished = NoFrame
    /\ history = <<>>
    /\ received = NoType

\* the values a reading of the wall clock can give: time does not run backwards
Now == clock..MaxClock

(* ------------------------- generate_ai_action ------------------------- *)
ActionTypes == {"attack", "defend", "reconnaissance", "escalation"}

\* representatives of random.uniform(0.3, 0.9) and random.uniform(0.4, 0.95),
\* in hundredths
SuccessProbabilities == {30}
Effectivenesses == {40}

PersonasKnown(battle) ==
    /\ battle.attacker_persona \in DOMAIN ATTACKER_PERSONAS
    /\ battle.defender_persona \in DOMAIN DEFENDER_PERSONAS

\* the action built for one outcome of the three random draws
GenerateAiAction(battle, now, action_type, technique_index, uniform) ==
    LET attacker == ATTACKER_PERSONAS[battle.attacker_persona]
        defender == DEFENDER_PERSONAS[battle.defender_persona]
        technique == attacker.techniques[technique_index]
    IN  IF action_type = "attack"
        THEN [timestamp |-> now,
              type |-> "attack",
              actor |-> attacker.name,
              technique |-> technique,
              description |-> <<attacker.name, "launches", technique, "attack">>,
              threat_level |-> attacker.threat_level,
              success_probability |-> uniform]
        ELSE [timestamp |-> now,
              type |-> "defense",
              actor |-> defender.name,
              strategy |-> defender.strategy,
              description |-> <<defender.name, "implements", defender.strategy>>,
              effectiveness |-> uniform]

\* the outcomes generate_ai_action can return for a battle with known personas
GeneratedActions(battle, now) ==
    {GenerateAiAction(battle, now, "attack", i, u) :
        i \in 1..Len(ATTACKER_PERSONAS[battle.attacker_persona].techniques),
        u \in SuccessProbabilities}
    \cup
    {GenerateAiAction(battle, now, t, 1, u) :
        t \in ActionTypes \ {"attack"}, u \in Effectivenesses}

\* what generate_ai_action can return when random.choice gives action_type:
\* nothing when the lookup of a persona raises KeyError
GeneratedFor(battle, now, action_type) ==
    IF ~PersonasKnown(battle)
    THEN {}
    ELSE IF action_type = "attack"
    THEN {GenerateAiAction(battle, now, "attack", i, u) :
            i \in 1..Len(ATTACKER_PERSONAS[battle.attacker_persona].techniques),
            u \in SuccessProbabilities}
    ELSE {GenerateAiAction(battle, now, action_type, 1, u) :
            u \in Effectivenesses}

(* --------------------------- HTTP handlers ---------------------------- *)
\* the return statement of start_battle / cast_vote: the response is built
\* from the handler's local `battle` object as it is when the handler returns
ReqReturn(rq, hp) ==
    [kind |-> rq.kind, status |-> 200, battle |-> rq.battle,
     battle_id |-> rq.battle_id, seq |-> rq.seq,
     result |-> IF rq.kind = "start"
                THEN hp[rq.battle]
                ELSE hp[rq.battle].audience_votes]

\* a handler that answers 200 with an empty tally when no battle is current
NoActiveBattleOk(option) ==
    [kind |-> "vote", status |-> 200, option |-> option, result |-> EmptyTally]

\* raise HTTPException(status_code=404, detail="No active battle")
NoActiveBattle(option) ==
    [kind |-> "vote", status |-> 404, option |-> option,
     detail |-> "No active battle"]

\* the locals of a handler that is suspended in its broadcast
ReqSuspended(kind, obj, battle_id, option, seq) ==
    [pc |-> "bcast", kind |-> kind, battle |-> obj, battle_id |-> battle_id,
     option |-> option, seq |-> seq]

ReqClosed == [pc |-> "closed"]

\* the requests of a run arrive one after the other, each in its own slot
Arrives(r) ==
    /\ req[r].pc = "free"
    /\ \A q \in 1..(r - 1) : req[q].pc # "free"

StartBattle(r, now, scenario, attacker, defender) ==
    LET battle_id == BattleId(now)
        obj == Len(heap) + 1
        seq == Len(history) + 1
        battle == NewBattle(battle_id, scenario, attacker, defender)
        f == BcStart(BattleStartedEnvelope(battle), seq, active_connections)
        rq == ReqSuspended("start", obj, battle_id, None, seq)
    IN  /\ Arrives(r)
        /\ Len(history) < MaxCommits
        /\ current_battle_id' = battle_id
        /\ heap' = Append(heap, battle)
        /\ battles' = StoreBattle(battles, battle_id, obj)
        /\ history' = Append(history,
                [kind |-> "start", obj |-> obj, option |-> None,
                 state |-> battle])
        /\ IF f.done
           THEN /\ req' = [req EXCEPT ![r] = ReqClosed]
                /\ response' = ReqReturn(rq, heap')
                /\ finished' = Outcome(f)
                /\ bc' = bc
           ELSE /\ req' = [req EXCEPT ![r] = rq]
                /\ bc' = [bc EXCEPT ![TaskR(r)] = f]
                /\ response' = NoResponse
                /\ finished' = NoFrame
        /\ clock' = now
        /\ received' = NoType
        /\ UNCHANGED <<active_connections, ws, inbox>>

CastVote(r, option) ==
    /\ Arrives(r)
    /\ received' = NoType
    /\ IF ~HasCurrentBattle
       THEN /\ req' = [req EXCEPT ![r] = ReqClosed]
            /\ response' = NoActiveBattle(option)
            /\ finished' = NoFrame
            /\ UNCHANGED <<clock, heap, battles, current_battle_id,
                           active_connections, ws, bc, inbox, history>>
       ELSE LET obj == battles[current_battle_id]
                seq == Len(history) + 1
                votes == IncrementVote(heap[obj].audience_votes, option)
                f == BcStart(VoteUpdateEnvelope(votes), seq, active_connections)
                rq == ReqSuspended("vote", obj, current_battle_id, option, seq)
            IN  /\ Len(history) < MaxCommits
                /\ heap' = [heap EXCEPT ![obj].audience_votes = votes]
                /\ history' = Append(history,
                        [kind |-> "vote", obj |-> obj, option |-> option,
                         state |-> heap'[obj]])
                /\ IF f.done
                   THEN /\ req' = [req EXCEPT ![r] = ReqClosed]
                        /\ response' = ReqReturn(rq, heap')
                        /\ finished' = Outcome(f)
                        /\ bc' = bc
                   ELSE /\ req' = [req EXCEPT ![r] = rq]
                        /\ bc' = [bc EXCEPT ![TaskR(r)] = f]
                        /\ response' = NoResponse
                        /\ finished' = NoFrame
                /\ UNCHANGED <<clock, battles, current_battle_id,
                               active_connections, ws, inbox>>

(* ------------------------- connection manager ------------------------- *)
\* list.remove(x): removes the first occurrence
Remove(conns, x) ==
    LET first == CHOOSE i \in 1..Len(conns) :
                    conns[i] = x /\ \A j \in 1..(i - 1) : conns[j] # x
    IN  IF \E i \in 1..Len(conns) : conns[i] = x
        THEN [i \in 1..(Len(conns) - 1) |->
                IF i < first THEN conns[i] ELSE conns[i + 1]]
        ELSE conns

\* a broadcast that serialises the live battle again for every send
DeliveredLive(f) ==
    LET h == history[f.seq]
    IN  CASE h.kind = "start" -> BattleStartedEnvelope(heap[h.obj])
          [] h.kind = "vote" -> VoteUpdateEnvelope(heap[h.obj].audience_votes)
          [] OTHER -> BattleActionEnvelope(f.message.action, heap[h.obj])

\* what connection.send_text(message) puts on the wire: broadcast's argument
Delivered(f) == f.message

\* a broadcast without the try: the exception of a send leaves it
SendFailureRaises(f) ==
    [f EXCEPT !.failed = @ \cup {f.target}, !.raised = TRUE, !.done = TRUE]

\* except: pass
SendFailure(f) == [f EXCEPT !.failed = @ \cup {f.target}]

\* await websocket.accept(); self.active_connections.append(websocket)
Connect(w) ==
    /\ ws[w] = "new"
    /\ \A v \in 1..(w - 1) : ws[v] # "new"
    /\ ws' = [ws EXCEPT ![w] = "open"]
    /\ active_connections' = Append(active_connections, w)
    /\ received' = NoType
    /\ response' = NoResponse
    /\ finished' = NoFrame
    /\ UNCHANGED <<clock, heap, battles, current_battle_id, req, bc, inbox,
                   history>>

\* a suspended connection.send_text returns (ok) or raises, and the broadcast
\* runs on to its next send or to its end, where the handler goes on (an
\* exception that left the broadcast would end the handler: HTTP 500, or the
\* end of the websocket coroutine)
SendDone(t, ok) ==
    LET f == bc[t]
        c == f.target
        g0 == IF ok THEN f ELSE SendFailure(f)
        g == IF g0.raised THEN g0 ELSE BcNext(g0, active_connections)
    IN  /\ f.active
        /\ ok => ws[c] \in {"open", "bcast"}
        /\ received' = NoType
        /\ inbox' = IF ok
                    THEN [inbox EXCEPT ![c] =
                            [seq |-> f.seq, message |-> Delivered(f)]]
                    ELSE inbox
        /\ bc' = [bc EXCEPT ![t] = IF g.done THEN NoFrame ELSE g]
        /\ finished' = IF g.done THEN Outcome(g) ELSE NoFrame
        /\ IF t[1] = "req"
           THEN /\ req' = [req EXCEPT ![t[2]] = IF g.done THEN ReqClosed ELSE @]
                /\ response' =
                      IF g.raised
                      THEN [kind |-> req[t[2]].kind, status |-> 500,
                            option |-> req[t[2]].option,
                            detail |-> "Internal Server Error"]
                      ELSE IF g.done
                      THEN ReqReturn(req[t[2]], heap)
                      ELSE NoResponse
                /\ ws' = ws
           ELSE /\ ws' = [ws EXCEPT ![t[2]] =
                            IF g.raised THEN "error"
                            ELSE IF g.done THEN "open" ELSE @]
                /\ req' = req
                /\ response' = NoResponse
        /\ UNCHANGED <<clock, heap, battles, current_battle_id,
                       active_connections, history>>

(* ------------------------- websocket_endpoint ------------------------- *)
\* except WebSocketDisconnect: manager.disconnect(websocket)
Disconnect(w) ==
    /\ active_connections' = Remove(active_connections, w)
    /\ ws' = [ws EXCEPT ![w] = "closed"]
    /\ bc' = [t \in Tasks |->
                IF bc[t].active
                THEN [bc[t] EXCEPT !.pending = @ \ {w}, !.removed = TRUE]
                ELSE bc[t]]
    /\ response' = NoResponse
    /\ finished' = NoFrame
    /\ UNCHANGED <<clock, heap, battles, current_battle_id, req, inbox,
                   history>>

\* an exception that takes every session of the server down with it
CrashEndsAll(w) ==
    /\ ws' = [v \in WS |-> IF ws[v] = "new" THEN "new" ELSE "error"]
    /\ active_connections' = <<>>
    /\ response' = NoResponse
    /\ finished' = NoFrame
    /\ UNCHANGED <<clock, heap, battles, current_battle_id, req, bc, inbox,
                   history>>

\* an exception other than WebSocketDisconnect leaves the coroutine
Crash(w) ==
    /\ ws' = [ws EXCEPT ![w] = "error"]
    /\ response' = NoResponse
    /\ finished' = NoFrame
    /\ UNCHANGED <<clock, heap, battles, current_battle_id,
                   active_connections, req, bc, inbox, history>>

NumActions ==
    Cardinality({i \in 1..Len(history) : history[i].kind = "action"})

\* message["type"] == "battle_action" with a current battle
BattleAction(w) ==
    LET obj == battles[current_battle_id]
        battle == heap[obj]
    IN  IF ~PersonasKnown(battle)
        THEN Crash(w)                      \* KeyError in generate_ai_action
        ELSE \E action \in GeneratedActions(battle, clock) :
               LET log == Append(battle.battle_log, action)
                   after == [battle EXCEPT !.battle_log = log]
                   f == BcStart(BattleActionEnvelope(action, after),
                                Len(history) + 1, active_connections)
               IN  /\ Len(history) < MaxCommits
                   /\ NumActions < MaxActions
                   /\ heap' = [heap EXCEPT ![obj] = after]
                   /\ history' = Append(history,
                           [kind |-> "action", obj |-> obj, option |-> None,
                            state |-> after])
                   /\ bc' = [bc EXCEPT ![TaskW(w)] = IF f.done THEN NoFrame ELSE f]
                   /\ finished' = IF f.done THEN Outcome(f) ELSE NoFrame
                   /\ response' = NoResponse
                   /\ ws' = [ws EXCEPT ![w] = IF f.done THEN "open" ELSE "bcast"]
                   /\ UNCHANGED <<clock, battles, current_battle_id,
                                  active_connections, req, inbox>>

\* a loop that forgets the current battle when it skips a message
IgnoreForgets ==
    /\ current_battle_id' = None
    /\ response' = NoResponse
    /\ finished' = NoFrame
    /\ UNCHANGED <<clock, heap, battles, active_connections, ws, req, bc,
                   inbox, history>>

\* a message that is not acted upon: the loop waits for the next one
Ignore ==
    /\ response' = NoResponse
    /\ finished' = NoFrame
    /\ UNCHANGED <<clock, heap, battles, current_battle_id,
                   active_connections, ws, req, bc, inbox, history>>

\* the inbound events that decode to a message with a type field: the values
\* of message["type"]
MessageTypes == {"battle_action", "other_type"}

\* a loop that raises on a battle_action message when no battle is current
ReceiveRaises(w, m) ==
    /\ ws[w] = "open"
    /\ received' = IF m \in MessageTypes THEN <<w, m>> ELSE NoType
    /\ CASE m = "disconnect" -> Disconnect(w)
         [] m \in {"undecodable", "no_type", "transport_error"} -> Crash(w)
         [] m = "battle_action" /\ HasCurrentBattle -> BattleAction(w)
         [] m = "battle_action" -> Crash(w)
         [] OTHER -> Ignore

\* one turn of the receive loop: receive_text returns or raises
Receive(w, m) ==
    /\ ws[w] = "open"
    /\ received' = IF m \in MessageTypes THEN <<w, m>> ELSE NoType
    /\ CASE m = "disconnect" -> Disconnect(w)
         [] m \in {"undecodable", "no_type", "transport_error"} -> Crash(w)
         [] m = "battle_action" /\ HasCurrentBattle -> BattleAction(w)
         [] OTHER -> Ignore

Next ==
    \/ \E r \in Reqs, now \in Now, s \in ScenarioInputs :
          \E a \in AttackerInputs, d \in DefenderInputs :
             StartBattle(r, now, s, a, d)
    \/ \E r \in Reqs, o \in Options : CastVote(r, o)
    \/ \E w \in WS : Connect(w)
    \/ \E t \in Tasks, ok \in BOOLEAN : SendDone(t, ok)
    \/ \E w \in WS, m \in InboundMessages : Receive(w, m)

Spec == Init /\ [][Next]_vars

\* the peers whose send_text may stay suspended for ever (a peer that has
\* stopped reading); every other suspended send returns or raises in the end
SlowSessions == {1}

SendCompletes(t) ==
    \E ok \in BOOLEAN : SendDone(t, ok) /\ bc[t].target \notin SlowSessions

FairSpec == Spec /\ \A t \in Tasks : WF_vars(SendCompletes(t))

(* ============================ properties ============================== *)
Registered == {active_connections[i] : i \in 1..Len(active_connections)}

LastCommit == history[Len(history)]

\* how often `option` has been cast on the battle object obj so far
VotesCast(obj, option) ==
    Cardinality({i \in 1..Len(history) :
                    /\ history[i].kind = "vote"
                    /\ history[i].obj = obj
                    /\ history[i].option = option})

\* a battle as start_battle creates it
IsFresh(battle) ==
    /\ battle.is_active = TRUE
    /\ battle.threat_level = 1
    /\ battle.current_phase = "reconnaissance"
    /\ battle.battle_log = <<>>
    /\ DOMAIN battle.audience_votes = {}

(* C1: the tally a successful cast_vote returns maps every option to the   *)
(* number of times it has been cast on that battle so far, and holds no    *)
(* option that was never cast.                                             *)
C1_TallyCountsVotes ==
    (response.kind = "vote" /\ response.status = 200) =>
        /\ DOMAIN response.result =
              {o \in Options : VotesCast(response.battle, o) > 0}
        /\ \A o \in DOMAIN response.result :
              response.result[o] = VotesCast(response.battle, o)

C1_Witness ==
    /\ response.kind = "vote" /\ response.status = 200
    /\ DOMAIN response.result = {"attacker"}
    /\ response.result["attacker"] = 2
    /\ Registered # {}

(* C2: every start_battle produces a non-empty identifier that no earlier  *)
(* start_battle has produced.                                              *)
C2_FreshBattleIds ==
    \A i, j \in 1..Len(history) :
        (history[i].kind = "start" /\ history[j].kind = "start" /\ i < j) =>
            /\ Len(history[j].state.battle_id) > 0
            /\ history[i].state.battle_id # history[j].state.battle_id

(* C3: a battle created by start_battle stays in the all-battles mapping   *)
(* under its identifier: it is never removed or replaced by another one.   *)
C3_BattlesRetained ==
    \A i \in 1..Len(history) :
        history[i].kind = "start" =>
            /\ history[i].state.battle_id \in DOMAIN battles
            /\ battles[history[i].state.battle_id] = history[i].obj

(* C4, as stated: when start_battle has returned, get_current_battle gives *)
(* the battle it created, active, at threat level 1, in reconnaissance,    *)
(* with an empty log and an empty tally.                                   *)
C4_FreshAtReturn ==
    response.kind = "start" =>
        /\ HasCurrentBattle
        /\ battles[current_battle_id] = response.battle
        /\ IsFresh(GetCurrentBattle)

(* C4, amended: when start_battle has committed and nothing has been       *)
(* committed since, get_current_battle gives the battle it created, fresh, *)
(* whatever earlier battles hold.                                          *)
C4_FreshAtCommit ==
    (Len(history) > 0 /\ LastCommit.kind = "start") =>
        /\ HasCurrentBattle
        /\ battles[current_battle_id] = LastCommit.obj
        /\ LastCommit.obj = Len(heap)
        /\ GetCurrentBattle.battle_id = current_battle_id
        /\ IsFresh(GetCurrentBattle)

C4_Witness ==
    /\ response.kind = "start"
    /\ Len(history) = 3 /\ LastCommit.kind = "start"
    /\ Len(heap) = 2
    /\ DOMAIN heap[1].audience_votes # {}
    /\ heap[1].battle_id = heap[2].battle_id
    /\ IsFresh(GetCurrentBattle)

(* C5: cast_vote with no battle ever started fails with 404, leaves the    *)
(* all-battles mapping empty and the current-battle reference none, and    *)
(* starts no broadcast.                                                    *)
C5_VoteWithoutBattle ==
    (response.kind = "vote" /\ current_battle_id = None) =>
        /\ response.status = 404
        /\ DOMAIN battles = {}
        /\ heap = <<>>
        /\ history = <<>>
        /\ finished = NoFrame
        /\ \A t \in Tasks : ~bc[t].active
        /\ \A w \in WS : inbox[w] = NoMessage

C5_Witness ==
    /\ response.kind = "vote" /\ response.status = 404
    /\ current_battle_id = None
    /\ Registered # {}

(* C6: a send that raises does not end the broadcast: it returns normally, *)
(* and when no connection left the list meanwhile, every connection that   *)
(* was registered has been sent the message, the failing one excepted.     *)
C6_FailureIsolated ==
    /\ finished.active =>
          /\ ~finished.raised
          /\ ~finished.removed => finished.missed = {}
    /\ response.kind # None => response.status # 500

C6_Witness ==
    /\ finished.active /\ ~finished.removed
    /\ Len(active_connections) = 2
    /\ Cardinality(finished.failed) = 1
    /\ \E w \in Registered \ finished.failed : inbox[w].seq = finished.seq

(* C7: a broadcast tries every connection that stays registered from its   *)
(* start to its end, also when others disconnect meanwhile.                *)
C7_NoneSkipped ==
    finished.active => finished.missed = {}

(* C8: a connection whose handler has ended, by a disconnect or by an      *)
(* error, is not in the registry.                                          *)
C8_EndedUnregistered ==
    \A w \in WS : ws[w] \in {"closed", "error"} => w \notin Registered

(* C9: a battle_action message taken by an open session while a battle is  *)
(* current appends exactly one action to that battle's log and starts a    *)
(* broadcast of it with a snapshot whose log ends with that action.        *)
C9_ActionAppended ==
    [][\A w \in WS :
          (HasCurrentBattle /\ Receive(w, "battle_action")) =>
              LET obj == battles[current_battle_id]
              IN  /\ Len(heap'[obj].battle_log) = Len(heap[obj].battle_log) + 1
                  /\ Len(history') = Len(history) + 1
                  /\ \/ finished'.active /\ finished'.seq = Len(history')
                     \/ /\ bc'[TaskW(w)].active
                        /\ bc'[TaskW(w)].message.type = "battle_action"
                        /\ bc'[TaskW(w)].message.battle_state = heap'[obj]
                        /\ bc'[TaskW(w)].message.action =
                              heap'[obj].battle_log[Len(heap'[obj].battle_log)]
      ]_vars

(* C10: what a start_battle or cast_vote broadcast carries, to every       *)
(* connection and at every moment of the broadcast, is the battle or the   *)
(* tally as it was when the change was committed; each commit has one      *)
(* broadcast, started after the commit.                                    *)
CommittedEnvelope(seq, message) ==
    /\ seq \in 1..Len(history)
    /\ history[seq].kind = "start" =>
          message = [type |-> "battle_started", battle |-> history[seq].state]
    /\ history[seq].kind = "vote" =>
          /\ message = [type |-> "vote_update",
                        votes |-> history[seq].state.audience_votes]
          /\ message.votes[history[seq].option] >= 1

C10_EnvelopeIsCommit ==
    /\ \A w \in WS :
          inbox[w].seq > 0 => CommittedEnvelope(inbox[w].seq, inbox[w].message)
    /\ \A t \in Tasks :
          bc[t].active => CommittedEnvelope(bc[t].seq, bc[t].message)
    /\ \A t, u \in Tasks :
          (bc[t].active /\ bc[u].active /\ t # u) => bc[t].seq # bc[u].seq

C10_Witness ==
    \E t \in Tasks, w \in WS :
        /\ bc[t].active
        /\ inbox[w].seq = bc[t].seq
        /\ history[bc[t].seq].kind = "vote"
        /\ heap[history[bc[t].seq].obj].audience_votes
              # history[bc[t].seq].state.audience_votes

(* C11: during a broadcast every registered session other than a slow one  *)
(* is in the end sent the payload (or leaves the registry), although the   *)
(* send to the slow session never finishes.                                *)
C11_OthersReceive ==
    \A t \in Tasks, w \in WS \ SlowSessions :
        (bc[t].active /\ w \in bc[t].pending /\ w \in Registered)
            ~> (w \notin Registered \/ (bc[t].active /\ bc[t].target = w))

\* the battle store, the registry and the broadcasts
StoreAndRegistry ==
    <<heap, battles, current_battle_id, active_connections, bc, inbox, history>>

(* C12: a message whose type is not battle_action changes no battle, not   *)
(* the current-battle reference and not the registry, starts and advances  *)
(* no broadcast, and leaves the session at its receive loop, open.         *)
C12_OtherTypeIgnored ==
    /\ [][\A w \in WS :
            received' = <<w, "other_type">> =>
                /\ UNCHANGED StoreAndRegistry
                /\ finished' = NoFrame
                /\ ws[w] = "open" /\ ws'[w] = "open"]_vars
    /\ [](\A w \in WS :
            received = <<w, "other_type">> =>
                /\ ws[w] = "open"
                /\ w \in Registered
                /\ finished = NoFrame /\ response = NoResponse)

C12_Witness ==
    /\ received = <<1, "other_type">>
    /\ HasCurrentBattle
    /\ \E t \in Tasks : bc[t].active /\ bc[t].target = 1
    /\ inbox[2].seq > 0

(* C13: a battle_action message received while no battle is current       *)
(* generates and appends nothing, starts no broadcast, raises nothing in   *)
(* the session's handler and leaves the session open.                      *)
C13_ActionWithoutBattle ==
    /\ [][\A w \in WS :
            (received' = <<w, "battle_action">> /\ ~HasCurrentBattle) =>
                /\ UNCHANGED StoreAndRegistry
                /\ finished' = NoFrame
                /\ ws'[w] = "open"]_vars
    /\ [](\A w \in WS :
            (received = <<w, "battle_action">> /\ ~HasCurrentBattle) =>
                /\ ws[w] = "open" /\ w \in Registered
                /\ heap = <<>> /\ history = <<>>
                /\ \A t \in Tasks : ~bc[t].active
                /\ \A v \in WS : inbox[v] = NoMessage)

C13_Witness ==
    /\ received = <<2, "battle_action">>
    /\ current_battle_id = None
    /\ Registered = {1, 2}
    /\ req[1].pc = "closed"

(* C14: start_battle with a scenario, attacker or defender tag that is no  *)
(* key of the static tables creates no battle, so every battle of the      *)
(* store references only tags of the tables.                               *)
C14_OnlyKnownTags ==
    \A k \in DOMAIN battles :
        /\ heap[battles[k]].scenario \in ScenarioTags
        /\ heap[battles[k]].attacker_persona \in DOMAIN ATTACKER_PERSONAS
        /\ heap[battles[k]].defender_persona \in DOMAIN DEFENDER_PERSONAS

(* C15: a payload that cannot be decoded, or that has no type field,       *)
(* changes nothing in the battle store and nothing for the other sessions: *)
(* they stay registered and at their place, and a later broadcast (during  *)
(* which no session leaves the registry) still tries every one of them.    *)
C15_MalformedIsolated ==
    /\ [][\A w \in WS :
            (Receive(w, "undecodable") \/ Receive(w, "no_type")) =>
                /\ UNCHANGED StoreAndRegistry
                /\ \A v \in WS \ {w} : ws'[v] = ws[v]
                /\ finished' = NoFrame]_vars
    /\ []((finished.active /\ ~finished.removed) =>
            \A v \in Registered :
                ws[v] \in {"open", "bcast"} => v \notin finished.missed)

C15_Witness ==
    /\ ws[1] = "error" /\ ws[2] = "open"
    /\ \A i \in 1..Len(heap) : PersonasKnown(heap[i])
    /\ Registered = {1, 2}
    /\ finished.active /\ ~finished.removed
    /\ finished.failed = {1}
    /\ inbox[2].seq = finished.seq
    /\ inbox[1] = NoMessage

IsPrefix(a, b) ==
    /\ Len(a) <= Len(b)
    /\ \A i \in 1..Len(a) : a[i] = b[i]

(* C16: the action log held under a battle identifier only grows: in every *)
(* step the identifier stays in the store and its log before the step is a *)
(* prefix of its log after the step.                                       *)
C16_LogAppendOnly ==
    [][\A k \in DOMAIN battles :
          /\ k \in DOMAIN battles'
          /\ IsPrefix(heap[battles[k]].battle_log,
                      heap'[battles'[k]].battle_log)]_vars

Range(seq) == {seq[i] : i \in 1..Len(seq)}

(* C17: for every battle of the store and every label, generate_ai_action  *)
(* emits an action; its kind is attack exactly for the label attack and    *)
(* defense for defend, reconnaissance and escalation; an attack carries a  *)
(* technique and the name of the battle's attacker persona, a defense the  *)
(* strategy and the name of its defender persona.                          *)
C17_GeneratorKinds ==
    \A i \in 1..Len(heap), t \in ActionTypes :
        /\ GeneratedFor(heap[i], clock, t) # {}
        /\ \A a \in GeneratedFor(heap[i], clock, t) :
              LET attacker == ATTACKER_PERSONAS[heap[i].attacker_persona]
                  defender == DEFENDER_PERSONAS[heap[i].defender_persona]
              IN  IF t = "attack"
                  THEN /\ a.type = "attack"
                       /\ a.technique \in Range(attacker.techniques)
                       /\ a.actor = attacker.name
                  ELSE /\ a.type = "defense"
                       /\ a.strategy = defender.strategy
                       /\ a.actor = defender.name

Starts == {i \in 1..Len(history) : history[i].kind = "start"}

(* C18: wherever a handler is suspended, the current-battle reference is   *)
(* none or a key of the all-battles mapping; it is none exactly as long as *)
(* no start_battle has committed, and from then on it designates the       *)
(* battle started last, which get_current_battle returns.                  *)
C18_CurrentDesignatesLatest ==
    /\ current_battle_id = None <=> Starts = {}
    /\ current_battle_id # None =>
          LET last == history[CHOOSE i \in Starts : \A j \in Starts : j <= i]
          IN  /\ current_battle_id \in DOMAIN battles
              /\ HasCurrentBattle
              /\ battles[current_battle_id] = last.obj
              /\ last.obj = Len(heap)
              /\ GetCurrentBattle = heap[last.obj]
              /\ GetCurrentBattle.battle_id = current_battle_id

C18_Witness ==
    /\ Len(heap) = 2
    /\ heap[1].battle_id # heap[2].battle_id
    /\ current_battle_id = heap[2].battle_id
    /\ \E r \in Reqs : bc[TaskR(r)].active /\ req[r].battle = 1
    /\ \E w \in WS : ws[w] = "bcast"

(* C19: every session receives the envelopes in the order in which the     *)
(* changes were committed: an envelope that arrives at a session belongs   *)
(* to a later commit than the envelope that arrived there before it.       *)
C19_CommitOrderDelivery ==
    [][\A w \in WS :
          inbox'[w] # inbox[w] => inbox'[w].seq > inbox[w].seq]_vars

(* C20: a step changes no battle but the current one: a battle that is not *)
(* current, or after which another battle has been started, keeps its      *)
(* tally and its log for ever, whatever handlers are still suspended in    *)
(* a broadcast about it.                                                   *)
C20_OnlyCurrentChanges ==
    [][\A i \in 1..Len(heap) :
          (\/ i < Len(heap)
           \/ ~HasCurrentBattle
           \/ battles[current_battle_id] # i) => heap'[i] = heap[i]]_vars

C20_Witness ==
    /\ Len(heap) = 2
    /\ HasCurrentBattle /\ battles[current_battle_id] = 2
    /\ DOMAIN heap[1].audience_votes = {"attacker"}
    /\ LastCommit.kind = "start" /\ LastCommit.obj = 2
    /\ heap[2].battle_id # heap[1].battle_id
    /\ \E r \in Reqs :
          /\ req[r].pc = "bcast" /\ req[r].kind = "vote" /\ req[r].battle = 1
          /\ bc[TaskR(r)].active
====
